---- MODULE Spec2Model ----
(***************************************************************************)
(* DocGenie: the sync engine (services/git.js), the embedding index        *)
(* (services/ai.js) and the content store (db/index.js).                   *)
(*                                                                         *)
(* Strings are sequences of one-character strings, so that toLowerCase,    *)
(* trim, split, replace and the link regex are computed, not assumed.      *)
(* A file is the result of gray-matter's parse: the frontmatter title      *)
(* (<<>> when absent) and the body (parsed.content).  The bodies of the    *)
(* model carry no "# heading" line, so the title of a file is its          *)
(* frontmatter title or the fallback.  The git_sha column and the git      *)
(* repository are left out: no step of the engine reads them back.         *)
(***************************************************************************)
EXTENDS Integers, Sequences, FiniteSets, TLC

VARIABLES
    files,        \* the repository directory: path -> file
    documents,    \* table documents: a set of rows (id is the primary key)
    links,        \* table links, in insertion (rowid) order
    embeddings,   \* table embeddings, in insertion (rowid) order
    openai,       \* ai.js `openai`: TRUE when a client is configured
    watcher,      \* git.js `watcher`: TRUE when it refers to a watcher
    opened,       \* the number of chokidar watchers that are open
    events,       \* paths with a change/add event chokidar has yet to emit
    nextId,       \* the next uuid handed out for a document
    tasks,        \* the async operations in flight, one record per slot
    runs,         \* the generateDocumentEmbeddings calls in flight
    ops,          \* the operations started so far, in order (history)
    chunker       \* the chunkText call under study: its locals, per turn

vars == <<files, documents, links, embeddings, openai, watcher, opened,
          events, nextId, tasks, runs, ops, chunker>>

-----------------------------------------------------------------------------
(* Bounds of the model.                                                    *)

(* operations started in a run with concurrent operations                  *)
MaxOps == 2

(* operations in flight at once                                            *)
MaxTasks == 2

(* operations started in a run where each returns before the next starts   *)
MaxSeqOps == 3

(* edits and watch events in a run of the watcher                          *)
MaxWatchOps == 4

(* the largest limit a search is called with                               *)
MaxLimit == 3

(* the lengths of the chunker's texts and the offsets of their breaks go   *)
(* up to this far past each edge                                           *)
MaxMargin == 1

(* Program constants.                                                      *)

MaxChunkSize == 1000

Overlap == 100

SnapWindow == 200

Null == 0

-----------------------------------------------------------------------------
(* Strings.                                                                *)

Min(a, b) == IF a < b THEN a ELSE b

Max(a, b) == IF a > b THEN a ELSE b

LowerChar(c) ==
    CASE c = "A" -> "a"
      [] c = "B" -> "b"
      [] c = "T" -> "t"
      [] c = "U" -> "u"
      [] OTHER -> c

ToLowerCase(s) == [i \in 1..Len(s) |-> LowerChar(s[i])]

IsSpace(c) == c \in {" ", "\n", "\t"}

RECURSIVE TrimStart(_)
TrimStart(s) ==
    IF s # <<>> /\ IsSpace(Head(s)) THEN TrimStart(Tail(s)) ELSE s

RECURSIVE TrimEnd(_)
TrimEnd(s) ==
    IF s # <<>> /\ IsSpace(s[Len(s)])
    THEN TrimEnd(SubSeq(s, 1, Len(s) - 1))
    ELSE s

Trim(s) == TrimEnd(TrimStart(s))

(* text.slice(start, end), 0-based, end exclusive, clamped to the text.    *)
Slice(text, start, end) ==
    SubSeq(text, Max(start, 0) + 1, Min(end, Len(text)))

StartsAt(text, pat, i) ==
    /\ i >= 0
    /\ i + Len(pat) <= Len(text)
    /\ \A k \in 1..Len(pat) : text[i + k] = pat[k]

(* text.indexOf(pat, from): 0-based index of the first occurrence at or    *)
(* after from (a negative from counts as 0), -1 when there is none.        *)
IndexOf(text, pat, from) ==
    LET hits == {i \in Max(from, 0)..Len(text) : StartsAt(text, pat, i)}
    IN  IF hits = {} THEN -1
        ELSE CHOOSE i \in hits : \A j \in hits : i <= j

(* s.split('|'): the segments between the separators.                      *)
RECURSIVE Split(_, _)
Split(s, sep) ==
    LET p == IndexOf(s, <<sep>>, 0)
    IN  IF p = -1 THEN <<s>>
        ELSE <<Slice(s, 0, p)>> \o Split(Slice(s, p + 1, Len(s)), sep)

(* relativePath.replace('.md', ''): the first occurrence only.             *)
StripMd(path) ==
    LET p == IndexOf(path, <<".", "m", "d">>, 0)
    IN  IF p = -1 THEN path
        ELSE Slice(path, 0, p) \o Slice(path, p + 3, Len(path))

-----------------------------------------------------------------------------
(* The universe of the model: two paths and the files they may hold.       *)

PathA == <<"a", ".", "m", "d">>

PathB == <<"b", ".", "m", "d">>

Paths == {PathA, PathB}

NoFile == [exists |-> FALSE, title |-> <<>>, body |-> <<>>]

(* title T, links to the title "U" (other case) and to the path key "b"    *)
FileT == [exists |-> TRUE, title |-> <<"T">>,
          body |-> <<"[", "[", "u", "]", "]", "[", "[", "B", "]", "]">>]

(* title U, a link to its own title with a display text                    *)
FileU == [exists |-> TRUE, title |-> <<"U">>,
          body |-> <<"[", "[", "U", "|", "m", "e", "]", "]">>]

(* no frontmatter title, no link                                           *)
FileX == [exists |-> TRUE, title |-> <<>>, body |-> <<"x">>]

FileValues == {FileT, FileU, FileX}

(* no frontmatter title, a body one character longer than a chunk          *)
FileLong == [exists |-> TRUE, title |-> <<>>,
             body |-> [i \in 1..(MaxChunkSize + 1) |-> "x"]]

(* title P, one token with two "|": target "B", then "x", then "y"         *)
FilePipes == [exists |-> TRUE, title |-> <<"P">>,
              body |-> <<"[", "[", "B", "|", "x", "|", "y", "]", "]">>]

(* no title; the tokens "[[]]", "[[ ]]" and "[[|t]]"                       *)
FileBlank == [exists |-> TRUE, title |-> <<>>,
              body |-> <<"[", "[", "]", "]",
                         "[", "[", " ", "]", "]",
                         "[", "[", "|", "t", "]", "]">>]

(* the files whose bodies exercise the token syntax                        *)
TokenInputs == {FileT, FileU, FilePipes, FileBlank}

Untitled == <<"U", "n", "t", "i", "t", "l", "e", "d">>

(* the title the chat model returns in generateTitle                       *)
AiTitle == <<"A", "i">>

-----------------------------------------------------------------------------
(* Wiki links.                                                             *)

(* The index (1-based) of the first "]" at or after q, Len+1 if none:      *)
(* the end of the run matched by [^\]]+ .                                  *)
RunEnd(s, q) ==
    LET stops == {j \in q..Len(s) : s[j] = "]"}
    IN  IF stops = {} THEN Len(s) + 1
        ELSE CHOOSE j \in stops : \A k \in stops : j <= k

(* /\[\[([^\]]+)\]\]/ matches at 1-based position p.                       *)
LinkAt(s, p) ==
    /\ p + 1 <= Len(s)
    /\ s[p] = "[" /\ s[p + 1] = "["
    /\ LET j == RunEnd(s, p + 2)
       IN  /\ j > p + 2
           /\ j + 1 <= Len(s)
           /\ s[j] = "]" /\ s[j + 1] = "]"

(* The captured groups of all matches of the global regex, in order:       *)
(* exec finds the leftmost match at or after lastIndex (p), and the next   *)
(* search starts behind that match.                                        *)
RECURSIVE LinkTokens(_, _)
LinkTokens(s, p) ==
    LET starts == {q \in p..Len(s) : LinkAt(s, q)}
    IN  IF starts = {} THEN <<>>
        ELSE LET q == CHOOSE x \in starts : \A y \in starts : x <= y
                 j == RunEnd(s, q + 2)
             IN  <<SubSeq(s, q + 2, j - 1)>> \o LinkTokens(s, j + 2)

(* const [target, display] = linkText.split('|').map(s => s.trim())        *)
TokenTarget(tok) == Trim(Split(tok, "|")[1])

TokenDisplay(tok) ==
    LET parts == Split(tok, "|")
    IN  IF Len(parts) >= 2 THEN Trim(parts[2]) ELSE <<>>

(* display || target                                                       *)
TokenText(tok) ==
    IF TokenDisplay(tok) # <<>> THEN TokenDisplay(tok) ELSE TokenTarget(tok)

extractWikiLinks(content) ==
    LET toks == LinkTokens(content, 1)
    IN  [i \in 1..Len(toks) |->
            [targetPath |-> TokenTarget(toks[i]),
             linkText   |-> TokenText(toks[i])]]

(* extractWikiLinks of every body of the universe, computed once           *)
Bodies == {f.body : f \in FileValues \cup TokenInputs \cup {FileLong, NoFile}}

wikiLinks == [b \in Bodies |-> extractWikiLinks(b)]

(* a lookup that falls back to the documents table                        *)
MapGetGlobal(docMap, key) ==
    LET hits == {d.id : d \in {r \in documents :
                                  \/ ToLowerCase(r.title) = key
                                  \/ ToLowerCase(StripMd(r.path)) = key}}
    IN  IF key \in DOMAIN docMap THEN docMap[key]
        ELSE IF hits = {} THEN Null
        ELSE CHOOSE i \in hits : \A j \in hits : i <= j

(* docMap.get(key): the id of the mapped document, Null for no entry and   *)
(* for an entry whose document is undefined.                               *)
MapGet(docMap, key) ==
    IF key \in DOMAIN docMap THEN docMap[key] ELSE Null

(* docMap.set(key, doc)                                                    *)
MapSet(docMap, key, id) ==
    [k \in DOMAIN docMap \cup {key} |-> IF k = key THEN id ELSE docMap[k]]

EmptyMap == [k \in {} |-> Null]

(* the matches of the replace callback of processWikiLinks in every body   *)
(* of the universe, computed once: target.toLowerCase(), display || target *)
linkTexts ==
    [b \in Bodies |->
        LET toks == LinkTokens(b, 1)
        IN  [i \in 1..Len(toks) |->
                [lower |-> ToLowerCase(TokenTarget(toks[i])),
                 text  |-> TokenText(toks[i])]]]

(* a rendering that resolves no token                                      *)
processAllMissing(content, docMap) ==
    LET toks == linkTexts[content]
    IN  [i \in 1..Len(toks) |-> [href |-> Null, text |-> toks[i].text]]

(* The anchors processWikiLinks writes, one per token: href is the id of   *)
(* the resolved document, Null for the "missing" anchor.                   *)
processWikiLinks(content, docMap) ==
    LET toks == linkTexts[content]
    IN  [i \in 1..Len(toks) |->
            [href |-> MapGet(docMap, toks[i].lower),
             text |-> toks[i].text]]

-----------------------------------------------------------------------------
(* Chunker.                                                                *)

(* `end` after the boundary search of one turn of the loop                 *)
chunkEnd(text, start, maxChunkSize, overlap) ==
    LET end0 == start + maxChunkSize
        nextPeriod  == IndexOf(text, <<".", " ">>, end0 - overlap)
        nextNewline == IndexOf(text, <<"\n", "\n">>, end0 - overlap)
        nextBreak == Min(IF nextPeriod > 0 THEN nextPeriod ELSE end0,
                         IF nextNewline > 0 THEN nextNewline ELSE end0)
    IN  IF end0 < Len(text)
           /\ nextBreak > start /\ nextBreak < end0 + SnapWindow
        THEN nextBreak + 1
        ELSE end0

(* a next start that goes back by ten overlaps                             *)
nextStartFar(end, overlap) == end - 10 * overlap

(* start = end - overlap                                                   *)
nextStart(end, overlap) == end - overlap

RECURSIVE chunkLoop(_, _, _, _)
chunkLoop(text, start, maxChunkSize, overlap) ==
    IF ~(start < Len(text)) THEN <<>>
    ELSE
      LET end == chunkEnd(text, start, maxChunkSize, overlap)
      IN  <<Trim(Slice(text, start, end))>>
              \o chunkLoop(text, nextStart(end, overlap), maxChunkSize,
                           overlap)

chunkText(text) == chunkLoop(text, 0, MaxChunkSize, Overlap)

(* ---- chunkText, one turn of its while loop at a time ----------------- *)

(* no call under study                                                     *)
NoCall == [pc |-> "none", text |-> <<>>, start |-> 0, chunks |-> <<>>,
           spans |-> <<>>]

(* const chunks = []; let start = 0                                        *)
CallOf(text) == [pc |-> "loop", text |-> text, start |-> 0,
                 chunks |-> <<>>, spans |-> <<>>]

(* one turn: the boundary search, chunks.push(text.slice(start, end)       *)
(* .trim()), start = end - overlap; spans keeps <<start, end>> of the turn *)
ChunkTurn ==
    /\ chunker.pc = "loop"
    /\ chunker.start < Len(chunker.text)
    /\ LET end == chunkEnd(chunker.text, chunker.start, MaxChunkSize,
                           Overlap)
       IN  chunker' =
              [chunker EXCEPT
                  !.chunks = Append(@, Trim(Slice(chunker.text,
                                                  chunker.start, end))),
                  !.spans = Append(@, <<chunker.start, end>>),
                  !.start = nextStart(end, Overlap)]
    /\ UNCHANGED <<files, documents, links, embeddings, openai, watcher,
                   opened, events, nextId, tasks, runs, ops>>

(* the loop condition fails: return chunks                                 *)
ChunkReturn ==
    /\ chunker.pc = "loop"
    /\ ~(chunker.start < Len(chunker.text))
    /\ chunker' = [chunker EXCEPT !.pc = "done"]
    /\ UNCHANGED <<files, documents, links, embeddings, openai, watcher,
                   opened, events, nextId, tasks, runs, ops>>

(* The texts given to the chunker: "x" everywhere but for ". " at offset   *)
(* p, "\n\n" at offset n (0-based, -1 for none) and a leading blank; the   *)
(* lengths and the offsets lie around the edges the loop compares with.    *)
MkText(len, p, n, lead) ==
    [i \in 1..len |->
        IF p >= 0 /\ i = p + 1 THEN "."
        ELSE IF p >= 0 /\ i = p + 2 THEN " "
        ELSE IF n >= 0 /\ i \in {n + 1, n + 2} THEN "\n"
        ELSE IF lead /\ i = 1 THEN " "
        ELSE "x"]

Margins == 0..MaxMargin

TextLens ==
    {d : d \in Margins}
        \cup {MaxChunkSize - Overlap + d : d \in Margins}
        \cup {MaxChunkSize + d : d \in Margins}
        \cup {MaxChunkSize + SnapWindow + 2 + d : d \in Margins}

BreakOffsets ==
    {-1} \cup {MaxChunkSize - Overlap - 1 + d : d \in Margins}
         \cup {MaxChunkSize - 1 + d : d \in Margins}
         \cup {MaxChunkSize + SnapWindow - 1 + d : d \in Margins}

ChunkTexts ==
    {MkText(c[1], c[2], c[3], c[4]) :
        c \in {q \in TextLens \X BreakOffsets \X BreakOffsets \X BOOLEAN :
                  /\ q[2] + 2 <= q[1]
                  /\ q[3] + 2 <= q[1]
                  /\ (q[2] >= 0 /\ q[3] >= 0)
                        => (q[2] + 2 <= q[3] \/ q[3] + 2 <= q[2])}}

-----------------------------------------------------------------------------
(* The content store.                                                      *)

(* initDb opens the connection and sets the journal mode only: SQLite's    *)
(* foreign key enforcement is off unless PRAGMA foreign_keys = ON is run,  *)
(* so the ON DELETE clauses of the schema are declared but not enforced.   *)
ForeignKeysOn == TRUE

ForeignKeys == FALSE

DocIds(docs) == {d.id : d \in docs}

(* documents.getById(id): the id when a row has it, Null for undefined     *)
getById(docs, id) == IF id \in DocIds(docs) THEN id ELSE Null

(* documents.getByPath(path): the first row with the path, Null if none    *)
getByPath(docs, path) ==
    LET hits == {d.id : d \in {r \in docs : r.path = path}}
    IN  IF hits = {} THEN Null
        ELSE CHOOSE i \in hits : \A j \in hits : i <= j

NoUniquePath(docs, path) == FALSE

(* path TEXT UNIQUE NOT NULL: the INSERT fails when the path is taken      *)
UniquePathViolated(docs, path) == \E d \in docs : d.path = path

(* documents.create(id, path, title, content, html, gitSha)                *)
DocCreate(docs, id, path, title, content, html) ==
    docs \cup {[id |-> id, path |-> path, title |-> title,
                content |-> content, html |-> html,
                category |-> "uncategorized", subcategory |-> ""]}

(* an update that rewrites the whole row from the file                     *)
DocUpdateResetsCategory(docs, id, title, content, html) ==
    {IF d.id = id
     THEN [d EXCEPT !.title = title, !.content = content, !.html = html,
                    !.category = "uncategorized", !.subcategory = ""]
     ELSE d : d \in docs}

(* documents.update(id, title, content, html, gitSha)                      *)
DocUpdate(docs, id, title, content, html) ==
    {IF d.id = id
     THEN [d EXCEPT !.title = title, !.content = content, !.html = html]
     ELSE d : d \in docs}

(* documents.updateCategory(id, category, subcategory)                     *)
updateCategory(docs, id, category, subcategory) ==
    {IF d.id = id
     THEN [d EXCEPT !.category = category, !.subcategory = subcategory]
     ELSE d : d \in docs}

(* DELETE FROM documents WHERE id = ?                                      *)
DocDelete(docs, id) == {d \in docs : d.id # id}

(* what the DELETE does to the links table: nothing, or the declared       *)
(* ON DELETE CASCADE / SET NULL when foreign keys are enforced             *)
LinksAfterDocDelete(ls, id) ==
    IF ForeignKeys
    THEN LET kept == SelectSeq(ls, LAMBDA l : l.source_id # id)
         IN  [i \in 1..Len(kept) |->
                IF kept[i].target_id = id
                THEN [kept[i] EXCEPT !.target_id = Null]
                ELSE kept[i]]
    ELSE ls

EmbeddingsAfterDocDelete(es, id) ==
    IF ForeignKeys
    THEN SelectSeq(es, LAMBDA e : e.document_id # id)
    ELSE es

(* links.deleteForDocument(docId)                                          *)
LinksDeleteForDocument(ls, id) == SelectSeq(ls, LAMBDA l : l.source_id # id)

(* the INSERT into links is refused only by an enforced foreign key        *)
LinkInsertOk(docs, sourceId, targetId) ==
    ~ForeignKeys
    \/ (sourceId \in DocIds(docs)
        /\ (targetId = Null \/ targetId \in DocIds(docs)))

(* links.create(id, sourceId, targetId, targetPath, linkText)              *)
LinksCreate(ls, sourceId, targetId, targetPath, linkText) ==
    Append(ls, [source_id |-> sourceId, target_id |-> targetId,
                target_path |-> targetPath, link_text |-> linkText])

(* embeddings.deleteForDocument(docId)                                     *)
EmbeddingsDeleteForDocument(es, id) ==
    SelectSeq(es, LAMBDA e : e.document_id # id)

EmbeddingInsertOk(docs, docId) == ~ForeignKeys \/ docId \in DocIds(docs)

(* embeddings.create(id, docId, chunkIndex, chunkText, embedding)          *)
EmbeddingsCreate(es, docId, chunkIndex, text) ==
    Append(es, [document_id |-> docId, chunk_index |-> chunkIndex,
                chunk_text |-> text])

(* embeddings.getForDocument(docId), without the ORDER BY                  *)
ChunksOf(es, id) == SelectSeq(es, LAMBDA e : e.document_id = id)

LinksOf(ls, id) == SelectSeq(ls, LAMBDA l : l.source_id = id)

-----------------------------------------------------------------------------
(* Operations in flight, one per slot; a slot whose operation has returned *)
(* keeps its record until the next operation takes it.  A step of a task   *)
(* runs the code from one await to the next and issues the operation       *)
(* awaited there.                                                          *)

Slots == 1..MaxTasks

InFlight(t) == tasks[t].pc \notin {"idle", "done"}

Quiet == \A t \in Slots : ~InFlight(t)

CanStart == \E t \in Slots : ~InFlight(t)

NewSlot == CHOOSE t \in Slots : ~InFlight(t) /\ \A u \in Slots : ~InFlight(u) => t <= u

IdleTask ==
    [kind |-> "idle", pc |-> "idle", path |-> <<>>, file |-> NoFile,
     docMap |-> EmptyMap, doc |-> Null, title |-> <<>>, html |-> <<>>,
     todo |-> <<>>, order |-> <<>>, k |-> 0, query |-> <<>>, limit |-> 0,
     all |-> <<>>, rows |-> <<>>,
     category |-> "uncategorized", subcategory |-> "",
     synced |-> 0, count |-> 0, result |-> "none"]

(* a returned operation: what it was, what it read and what it returned    *)
Finished(tk, res) ==
    [IdleTask EXCEPT !.kind = tk.kind, !.pc = "done", !.result = res,
                     !.path = tk.path, !.file = tk.file,
                     !.docMap = tk.docMap, !.doc = tk.doc,
                     !.order = tk.order, !.query = tk.query,
                     !.limit = tk.limit, !.all = tk.all, !.rows = tk.rows,
                     !.category = tk.category,
                     !.subcategory = tk.subcategory,
                     !.synced = tk.synced, !.count = tk.count]

(* the orders in which glob may list the markdown files                    *)
GlobOrders ==
    LET present == {p \in Paths : files[p].exists}
    IN  {o \in UNION {[1..n -> present] : n \in 0..Cardinality(Paths)} :
            /\ Len(o) = Cardinality(present)
            /\ \A i, j \in 1..Len(o) : i # j => o[i] # o[j]}

(* parsed.data.title || ... || 'Untitled'  (syncRepo pass 1, saveDocument) *)
StubTitle(file) == IF file.title # <<>> THEN file.title ELSE Untitled

(* generateTitle(content)                                                  *)
generateTitle == IF ~openai THEN Untitled ELSE AiTitle

(* the title syncFile stores                                               *)
SyncTitle(file) == IF file.title # <<>> THEN file.title ELSE generateTitle

(* a change or add event of the watched directory                          *)
Raise(ev, p) == IF watcher THEN ev \cup {p} ELSE ev

(* ---- syncFile(filePath, docMap) -------------------------------------- *)

(* what the caller does with the value syncFile returns: syncRepo drops    *)
(* it (synced counts the Documents it was handed) and, after the last      *)
(* file, returns files.length                                              *)
SfReturn(tk, res) ==
    IF tk.kind = "full"
    THEN LET n == tk.synced + (IF res = "doc" THEN 1 ELSE 0)
         IN  IF tk.k < Len(tk.order)
             THEN [tk EXCEPT !.k = @ + 1, !.path = tk.order[tk.k + 1],
                             !.pc = "sf_read", !.file = NoFile,
                             !.doc = Null, !.title = <<>>, !.html = <<>>,
                             !.todo = <<>>, !.synced = n]
             ELSE Finished([tk EXCEPT !.path = <<>>, !.file = NoFile,
                                      !.doc = Null, !.title = <<>>,
                                      !.html = <<>>, !.synced = n,
                                      !.count = Len(tk.order)], "count")
    ELSE Finished(tk, res)

(* fs.readFile: the content, or an error caught by syncFile                *)
SfRead(t) ==
    /\ tasks[t].pc = "sf_read"
    /\ LET tk == tasks[t]
       IN  tasks' = [tasks EXCEPT ![t] =
              IF files[tk.path].exists
              THEN [tk EXCEPT !.file = files[tk.path], !.pc = "sf_getByPath"]
              ELSE SfReturn(tk, "null")]
    /\ UNCHANGED <<files, documents, links, embeddings, openai, watcher, opened,
                   events, nextId, runs, ops, chunker>>

(* title, processWikiLinks, then documents.getByPath                       *)
SfGetByPath(t) ==
    /\ tasks[t].pc = "sf_getByPath"
    /\ LET tk == tasks[t]
           found == getByPath(documents, tk.path)
       IN  tasks' = [tasks EXCEPT ![t] =
              [tk EXCEPT !.title = SyncTitle(tk.file),
                         !.html = processWikiLinks(tk.file.body, tk.docMap),
                         !.doc = found,
                         !.pc = IF found # Null THEN "sf_update"
                                ELSE "sf_create"]]
    /\ UNCHANGED <<files, documents, links, embeddings, openai, watcher, opened,
                   events, nextId, runs, ops, chunker>>

SfUpdate(t) ==
    /\ tasks[t].pc = "sf_update"
    /\ LET tk == tasks[t]
       IN  /\ documents' = DocUpdate(documents, tk.doc, tk.title,
                                     tk.file.body, tk.html)
           /\ tasks' = [tasks EXCEPT ![t] = [tk EXCEPT !.pc = "sf_getById"]]
    /\ UNCHANGED <<files, links, embeddings, openai, watcher, opened, events,
                   nextId, runs, ops, chunker>>

SfCreate(t) ==
    /\ tasks[t].pc = "sf_create"
    /\ LET tk == tasks[t]
       IN  IF UniquePathViolated(documents, tk.path)
           THEN /\ tasks' = [tasks EXCEPT ![t] = SfReturn(tk, "null")]
                /\ UNCHANGED <<documents, nextId>>
           ELSE /\ documents' = DocCreate(documents, nextId, tk.path,
                                          tk.title, tk.file.body, tk.html)
                /\ nextId' = nextId + 1
                /\ tasks' = [tasks EXCEPT ![t] =
                                [tk EXCEPT !.doc = nextId,
                                           !.pc = "sf_getById"]]
    /\ UNCHANGED <<files, links, embeddings, openai, watcher, opened, events,
                   runs, ops, chunker>>

SfGetById(t) ==
    /\ tasks[t].pc = "sf_getById"
    /\ LET tk == tasks[t]
       IN  tasks' = [tasks EXCEPT ![t] =
              [tk EXCEPT !.doc = getById(documents, tk.doc),
                         !.pc = "sf_delLinks"]]
    /\ UNCHANGED <<files, documents, links, embeddings, openai, watcher, opened,
                   events, nextId, runs, ops, chunker>>

(* doc.id throws when getById found no row; else links.deleteForDocument   *)
SfDelLinks(t) ==
    /\ tasks[t].pc = "sf_delLinks"
    /\ LET tk == tasks[t]
       IN  IF tk.doc = Null
           THEN /\ tasks' = [tasks EXCEPT ![t] = SfReturn(tk, "null")]
                /\ UNCHANGED links
           ELSE /\ links' = LinksDeleteForDocument(links, tk.doc)
                /\ tasks' = [tasks EXCEPT ![t] =
                      [tk EXCEPT !.todo = wikiLinks[tk.file.body],
                                 !.pc = "sf_link"]]
    /\ UNCHANGED <<files, documents, embeddings, openai, watcher, opened, events,
                   nextId, runs, ops, chunker>>

(* one turn of the loop over wikiLinks: links.create                       *)
SfLink(t) ==
    /\ tasks[t].pc = "sf_link"
    /\ tasks[t].todo # <<>>
    /\ LET tk == tasks[t]
           link == Head(tk.todo)
           target == MapGet(tk.docMap, ToLowerCase(link.targetPath))
       IN  IF LinkInsertOk(documents, tk.doc, target)
           THEN /\ links' = LinksCreate(links, tk.doc, target,
                                        link.targetPath, link.linkText)
                /\ tasks' = [tasks EXCEPT ![t] =
                                [tk EXCEPT !.todo = Tail(tk.todo)]]
           ELSE /\ tasks' = [tasks EXCEPT ![t] = SfReturn(tk, "null")]
                /\ UNCHANGED links
    /\ UNCHANGED <<files, documents, embeddings, openai, watcher, opened, events,
                   nextId, runs, ops, chunker>>

(* a reindex that deletes the old rows before it looks for the client      *)
SpawnDeleteFirst(docId, content) ==
    /\ embeddings' = EmbeddingsDeleteForDocument(embeddings, docId)
    /\ runs' = IF ~openai \/ chunkText(content) = <<>> THEN runs
               ELSE Append(runs, [doc |-> docId,
                                  chunks |-> chunkText(content), i |-> 0])

(* generateDocumentEmbeddings up to its first await: the check of the      *)
(* client, then embeddings.deleteForDocument; a run with no chunk is over  *)
SpawnEmbeddings(docId, content) ==
    IF ~openai
    THEN UNCHANGED <<embeddings, runs>>
    ELSE /\ embeddings' = EmbeddingsDeleteForDocument(embeddings, docId)
         /\ runs' = IF chunkText(content) = <<>> THEN runs
                    ELSE Append(runs, [doc |-> docId,
                                       chunks |-> chunkText(content),
                                       i |-> 0])

(* a sync that fails when its re-embedding cannot start                    *)
SfFinishAwaits(t) ==
    /\ tasks[t].pc = "sf_link"
    /\ tasks[t].todo = <<>>
    /\ SpawnEmbeddings(tasks[t].doc, tasks[t].file.body)
    /\ tasks' = [tasks EXCEPT ![t] =
                    SfReturn(tasks[t], IF openai THEN "doc" ELSE "null")]
    /\ UNCHANGED <<files, documents, links, openai, watcher, opened, events,
                   nextId, ops, chunker>>

(* after the loop: start the re-embedding, do not wait, return doc         *)
SfFinish(t) ==
    /\ tasks[t].pc = "sf_link"
    /\ tasks[t].todo = <<>>
    /\ SpawnEmbeddings(tasks[t].doc, tasks[t].file.body)
    /\ tasks' = [tasks EXCEPT ![t] = SfReturn(tasks[t], "doc")]
    /\ UNCHANGED <<files, documents, links, openai, watcher, opened, events,
                   nextId, ops, chunker>>

(* ---- generateDocumentEmbeddings, the loop over the chunks ------------ *)

RemoveAt(seq, n) == SubSeq(seq, 1, n - 1) \o SubSeq(seq, n + 1, Len(seq))

(* the provider answered for chunk i: embeddings.create                    *)
EmbedChunk(n) ==
    /\ n \in 1..Len(runs)
    /\ LET r == runs[n]
       IN  IF EmbeddingInsertOk(documents, r.doc)
           THEN /\ embeddings' = EmbeddingsCreate(embeddings, r.doc, r.i,
                                                  r.chunks[r.i + 1])
                /\ runs' = IF r.i + 1 = Len(r.chunks)
                           THEN RemoveAt(runs, n)
                           ELSE [runs EXCEPT ![n].i = r.i + 1]
           ELSE /\ runs' = RemoveAt(runs, n)
                /\ UNCHANGED embeddings
    /\ UNCHANGED <<files, documents, links, openai, watcher, opened, events,
                   nextId, tasks, ops, chunker>>

(* the provider rejects the request for chunk i: the run ends there        *)
EmbedFail(n) ==
    /\ n \in 1..Len(runs)
    /\ runs' = RemoveAt(runs, n)
    /\ UNCHANGED <<files, documents, links, embeddings, openai, watcher, opened,
                   events, nextId, tasks, ops, chunker>>

(* ---- semanticSearch(query, limit) ------------------------------------ *)

(* The provider is taken to be a function of its input: it answers a text  *)
(* with one of three vectors of length 1, by the length of the text.  The  *)
(* embedding column of a row is the provider's answer for its chunk_text,  *)
(* so the rows do not carry it.                                            *)
providerVector(text) ==
    CASE Len(text) % 3 = 0 -> <<1, 0>>
      [] Len(text) % 3 = 1 -> <<0, 1>>
      [] OTHER -> <<-1, 0>>

DotProduct(a, b) == a[1] * b[1] + a[2] * b[2]

(* Math.sqrt, for the squares the model meets                              *)
Sqrt(n) == CHOOSE r \in 0..n : r * r = n

(* dotProduct / (Math.sqrt(normA) * Math.sqrt(normB))                      *)
cosineSimilarity(a, b) ==
    DotProduct(a, b) \div (Sqrt(DotProduct(a, a)) * Sqrt(DotProduct(b, b)))

(* a comparator that sorts by rising similarity                            *)
compareRising(a, b) == a.similarity - b.similarity

(* (a, b) => b.similarity - a.similarity                                   *)
compareFn(a, b) == b.similarity - a.similarity

(* Array.prototype.sort, which is stable: x is put behind every element    *)
(* the comparator does not order after it                                  *)
RECURSIVE SortInsert(_, _)
SortInsert(sorted, x) ==
    IF sorted = <<>> THEN <<x>>
    ELSE IF compareFn(sorted[Len(sorted)], x) <= 0 THEN Append(sorted, x)
    ELSE Append(SortInsert(SubSeq(sorted, 1, Len(sorted) - 1), x),
                sorted[Len(sorted)])

RECURSIVE Sort(_)
Sort(seq) ==
    IF seq = <<>> THEN <<>>
    ELSE SortInsert(Sort(SubSeq(seq, 1, Len(seq) - 1)), seq[Len(seq)])

(* allEmbeddings.map(row => ({...row, similarity})); pos is the place of   *)
(* the row in the table, which stands for its id                           *)
Scored(es, queryEmbedding) ==
    [i \in 1..Len(es) |->
        [row |-> es[i], pos |-> i,
         similarity |-> cosineSimilarity(queryEmbedding,
                                         providerVector(es[i].chunk_text))]]

(* the texts searched for                                                  *)
QueryTexts == {<<"q">>, <<"q", "q">>, <<"q", "q", "q">>}

(* the call: without a client it throws at once, else it asks the provider *)
(* for the vector of the query                                             *)
SearchCall(query, limit) ==
    /\ CanStart
    /\ tasks' = [tasks EXCEPT ![NewSlot] =
          IF ~openai
          THEN Finished([IdleTask EXCEPT !.kind = "search",
                                         !.query = query, !.limit = limit],
                        "error")
          ELSE [IdleTask EXCEPT !.kind = "search", !.query = query,
                                !.limit = limit, !.pc = "ss_embed"]]
    /\ ops' = Append(ops, "search")
    /\ UNCHANGED <<files, documents, links, embeddings, openai, watcher, opened,
                   events, nextId, runs, chunker>>

(* the provider answers, or rejects and the search throws                  *)
SsEmbed(t) ==
    /\ tasks[t].pc = "ss_embed"
    /\ \E ok \in BOOLEAN :
          tasks' = [tasks EXCEPT ![t] =
              IF ok THEN [tasks[t] EXCEPT !.pc = "ss_getAll"]
              ELSE Finished(tasks[t], "error")]
    /\ UNCHANGED <<files, documents, links, embeddings, openai, watcher, opened,
                   events, nextId, runs, ops, chunker>>

(* embeddings.getAllWithEmbeddings, then map, sort and slice(0, limit),    *)
(* which have no await between them                                        *)
SsGetAll(t) ==
    /\ tasks[t].pc = "ss_getAll"
    /\ LET results == Scored(embeddings, providerVector(tasks[t].query))
       IN  tasks' = [tasks EXCEPT ![t] =
              Finished([tasks[t] EXCEPT
                           !.all = results,
                           !.rows = SubSeq(Sort(results), 1,
                                           Min(tasks[t].limit,
                                               Len(results)))],
                       "results")]
    /\ UNCHANGED <<files, documents, links, embeddings, openai, watcher, opened,
                   events, nextId, runs, ops, chunker>>

(* ---- saveDocument(docPath, content, frontmatter) --------------------- *)

(* the call, mkdir and fs.writeFile of matter.stringify(content, fm)       *)
SaveWrite(p, f) ==
    /\ CanStart
    /\ files' = [files EXCEPT ![p] = f]
    /\ events' = Raise(events, p)
    /\ tasks' = [tasks EXCEPT ![NewSlot] =
                    [IdleTask EXCEPT !.kind = "save", !.path = p,
                                     !.file = f, !.pc = "sv_getByPath"]]
    /\ ops' = Append(ops, "save")
    /\ UNCHANGED <<documents, links, embeddings, openai, watcher, opened, nextId,
                   runs, chunker>>

(* after the commit: documents.getByPath; a known document seeds docMap    *)
SaveGetByPath(t) ==
    /\ tasks[t].pc = "sv_getByPath"
    /\ LET tk == tasks[t]
           found == getByPath(documents, tk.path)
       IN  tasks' = [tasks EXCEPT ![t] =
              IF found # Null
              THEN [tk EXCEPT !.docMap =
                        MapSet(EmptyMap, ToLowerCase(StubTitle(tk.file)),
                               found),
                              !.file = NoFile, !.pc = "sf_read"]
              ELSE [tk EXCEPT !.pc = "sv_create"]]
    /\ UNCHANGED <<files, documents, links, embeddings, openai, watcher, opened,
                   events, nextId, runs, ops, chunker>>

(* documents.create of the stub; a refused INSERT rejects saveDocument     *)
SaveCreate(t) ==
    /\ tasks[t].pc = "sv_create"
    /\ LET tk == tasks[t]
       IN  IF UniquePathViolated(documents, tk.path)
           THEN /\ tasks' = [tasks EXCEPT ![t] = Finished(tk, "error")]
                /\ UNCHANGED <<documents, nextId>>
           ELSE /\ documents' = DocCreate(documents, nextId, tk.path,
                                          StubTitle(tk.file), tk.file.body,
                                          <<>>)
                /\ nextId' = nextId + 1
                /\ tasks' = [tasks EXCEPT ![t] =
                                [tk EXCEPT !.doc = nextId,
                                           !.pc = "sv_getById"]]
    /\ UNCHANGED <<files, links, embeddings, openai, watcher, opened, events,
                   runs, ops, chunker>>

(* documents.getById, docMap.set(title, doc), then syncFile                *)
(* a save whose lookup map is built from every row of the table           *)
SaveGetByIdAllDocs(t) ==
    /\ tasks[t].pc = "sv_getById"
    /\ LET tk == tasks[t]
           keys == {ToLowerCase(d.title) : d \in documents}
                   \cup {ToLowerCase(StripMd(d.path)) : d \in documents}
       IN  tasks' = [tasks EXCEPT ![t] =
              [tk EXCEPT !.docMap =
                    [k \in keys |-> MapGetGlobal(EmptyMap, k)],
                         !.doc = Null, !.file = NoFile, !.pc = "sf_read"]]
    /\ UNCHANGED <<files, documents, links, embeddings, openai, watcher, opened,
                   events, nextId, runs, ops, chunker>>

SaveGetById(t) ==
    /\ tasks[t].pc = "sv_getById"
    /\ LET tk == tasks[t]
       IN  tasks' = [tasks EXCEPT ![t] =
              [tk EXCEPT !.docMap =
                    MapSet(EmptyMap, ToLowerCase(StubTitle(tk.file)),
                           getById(documents, tk.doc)),
                         !.doc = Null, !.file = NoFile, !.pc = "sf_read"]]
    /\ UNCHANGED <<files, documents, links, embeddings, openai, watcher, opened,
                   events, nextId, runs, ops, chunker>>

(* ---- syncRepo() ------------------------------------------------------- *)

(* the call, initDb and glob                                               *)
SyncRepoGlob ==
    /\ CanStart
    /\ \E o \in GlobOrders :
          tasks' = [tasks EXCEPT ![NewSlot] =
              IF o = <<>>
              THEN Finished([IdleTask EXCEPT !.kind = "full"], "count")
              ELSE [IdleTask EXCEPT !.kind = "full", !.order = o, !.k = 1,
                                    !.path = o[1], !.pc = "p1_read"]]
    /\ ops' = Append(ops, "full")
    /\ UNCHANGED <<files, documents, links, embeddings, openai, watcher, opened,
                   events, nextId, runs, chunker>>

(* a first pass that registers the title key only                          *)
PassOneTitleOnly(tk, id) ==
    LET m1 == MapSet(tk.docMap, ToLowerCase(StubTitle(tk.file)), id)
    IN  IF tk.k < Len(tk.order)
        THEN [tk EXCEPT !.docMap = m1, !.k = @ + 1,
                        !.path = tk.order[tk.k + 1], !.file = NoFile,
                        !.doc = Null, !.pc = "p1_read"]
        ELSE [tk EXCEPT !.docMap = m1, !.k = 1, !.path = tk.order[1],
                        !.file = NoFile, !.doc = Null, !.pc = "sf_read"]

(* a first pass that hands over to the second pass after its first file   *)
PassOneEager(tk, id) ==
    LET m1 == MapSet(tk.docMap, ToLowerCase(StubTitle(tk.file)), id)
        m2 == MapSet(m1, ToLowerCase(StripMd(tk.path)), id)
    IN  [tk EXCEPT !.docMap = m2, !.k = 1, !.path = tk.order[1],
                   !.file = NoFile, !.doc = Null, !.pc = "sf_read"]

(* the end of one turn of the first pass: register both keys, go on        *)
PassOneNext(tk, id) ==
    LET m1 == MapSet(tk.docMap, ToLowerCase(StubTitle(tk.file)), id)
        m2 == MapSet(m1, ToLowerCase(StripMd(tk.path)), id)
    IN  IF tk.k < Len(tk.order)
        THEN [tk EXCEPT !.docMap = m2, !.k = @ + 1,
                        !.path = tk.order[tk.k + 1], !.file = NoFile,
                        !.doc = Null, !.pc = "p1_read"]
        ELSE [tk EXCEPT !.docMap = m2, !.k = 1, !.path = tk.order[1],
                        !.file = NoFile, !.doc = Null, !.pc = "sf_read"]

(* first pass, fs.readFile: an unreadable file rejects syncRepo            *)
PassOneRead(t) ==
    /\ tasks[t].pc = "p1_read"
    /\ LET tk == tasks[t]
       IN  tasks' = [tasks EXCEPT ![t] =
              IF files[tk.path].exists
              THEN [tk EXCEPT !.file = files[tk.path],
                              !.pc = "p1_getByPath"]
              ELSE Finished(tk, "error")]
    /\ UNCHANGED <<files, documents, links, embeddings, openai, watcher, opened,
                   events, nextId, runs, ops, chunker>>

PassOneGetByPath(t) ==
    /\ tasks[t].pc = "p1_getByPath"
    /\ LET tk == tasks[t]
           found == getByPath(documents, tk.path)
       IN  tasks' = [tasks EXCEPT ![t] =
              IF found # Null THEN PassOneNext(tk, found)
              ELSE [tk EXCEPT !.pc = "p1_create"]]
    /\ UNCHANGED <<files, documents, links, embeddings, openai, watcher, opened,
                   events, nextId, runs, ops, chunker>>

PassOneCreate(t) ==
    /\ tasks[t].pc = "p1_create"
    /\ LET tk == tasks[t]
       IN  IF UniquePathViolated(documents, tk.path)
           THEN /\ tasks' = [tasks EXCEPT ![t] = Finished(tk, "error")]
                /\ UNCHANGED <<documents, nextId>>
           ELSE /\ documents' = DocCreate(documents, nextId, tk.path,
                                          StubTitle(tk.file), tk.file.body,
                                          <<>>)
                /\ nextId' = nextId + 1
                /\ tasks' = [tasks EXCEPT ![t] =
                                [tk EXCEPT !.doc = nextId,
                                           !.pc = "p1_getById"]]
    /\ UNCHANGED <<files, links, embeddings, openai, watcher, opened, events,
                   runs, ops, chunker>>

PassOneGetById(t) ==
    /\ tasks[t].pc = "p1_getById"
    /\ tasks' = [tasks EXCEPT ![t] =
                    PassOneNext(tasks[t], getById(documents, tasks[t].doc))]
    /\ UNCHANGED <<files, documents, links, embeddings, openai, watcher, opened,
                   events, nextId, runs, ops, chunker>>

(* ---- deleteDocument(docId) ------------------------------------------- *)

(* the call and documents.getById: false for an unknown id                 *)
DeleteGetById(id) ==
    /\ CanStart
    /\ id \in 1..(nextId - 1)
    /\ tasks' = [tasks EXCEPT ![NewSlot] =
          IF getById(documents, id) = Null
          THEN Finished([IdleTask EXCEPT !.kind = "delete", !.doc = id],
                        "false")
          ELSE [IdleTask EXCEPT
                  !.kind = "delete", !.doc = id, !.pc = "dl_unlink",
                  !.path = (CHOOSE d \in documents : d.id = id).path]]
    /\ ops' = Append(ops, "delete")
    /\ UNCHANGED <<files, documents, links, embeddings, openai, watcher, opened,
                   events, nextId, runs, chunker>>

(* fs.unlink; its failure is caught and logged                             *)
DeleteUnlink(t) ==
    /\ tasks[t].pc = "dl_unlink"
    /\ files' = [files EXCEPT ![tasks[t].path] = NoFile]
    /\ tasks' = [tasks EXCEPT ![t] = [tasks[t] EXCEPT !.pc = "dl_delete"]]
    /\ UNCHANGED <<documents, links, embeddings, openai, watcher, opened, events,
                   nextId, runs, ops, chunker>>

(* documents.delete(docId), return true                                    *)
DeleteRow(t) ==
    /\ tasks[t].pc = "dl_delete"
    /\ documents' = DocDelete(documents, tasks[t].doc)
    /\ links' = LinksAfterDocDelete(links, tasks[t].doc)
    /\ embeddings' = EmbeddingsAfterDocDelete(embeddings, tasks[t].doc)
    /\ tasks' = [tasks EXCEPT ![t] = Finished(tasks[t], "true")]
    /\ UNCHANGED <<files, openai, watcher, opened, events, nextId, runs, ops,
                   chunker>>

(* ---- the watcher ------------------------------------------------------ *)

(* watcher.on('change' | 'add'): syncFile with an empty docMap             *)
WatchEvent(p) ==
    /\ CanStart
    /\ watcher
    /\ p \in events
    /\ events' = events \ {p}
    /\ tasks' = [tasks EXCEPT ![NewSlot] =
                    [IdleTask EXCEPT !.kind = "watch", !.path = p,
                                     !.pc = "sf_read"]]
    /\ ops' = Append(ops, "watch")
    /\ UNCHANGED <<files, documents, links, embeddings, openai, watcher, opened,
                   nextId, runs, chunker>>

(* a start that leaves the previous watcher open                           *)
StartNoClose ==
    /\ watcher' = TRUE
    /\ opened' = opened + 1
    /\ events' = {}
    /\ UNCHANGED <<files, documents, links, embeddings, openai, nextId,
                   tasks, runs, ops, chunker>>

(* startWatcher: close the watcher `watcher` refers to, if any, with the   *)
(* events it has not emitted, then open a new one                          *)
StartWatcher ==
    /\ watcher' = TRUE
    /\ opened' = (IF watcher THEN opened - 1 ELSE opened) + 1
    /\ events' = {}
    /\ UNCHANGED <<files, documents, links, embeddings, openai, nextId,
                   tasks, runs, ops, chunker>>

(* stopWatcher: close the watcher and forget it; nothing without one       *)
StopWatcher ==
    IF watcher
    THEN /\ watcher' = FALSE
         /\ opened' = opened - 1
         /\ events' = {}
         /\ UNCHANGED <<files, documents, links, embeddings, openai, nextId,
                        tasks, runs, ops, chunker>>
    ELSE UNCHANGED vars

(* ---- the environment -------------------------------------------------- *)

(* an editor writes a markdown file of the repository                      *)
ExternalEdit(p, f) ==
    /\ CanStart
    /\ files[p] # f
    /\ files' = [files EXCEPT ![p] = f]
    /\ events' = Raise(events, p)
    /\ tasks' = [tasks EXCEPT ![NewSlot] =
                    Finished([IdleTask EXCEPT !.kind = "edit", !.path = p],
                             "none")]
    /\ ops' = Append(ops, "edit")
    /\ UNCHANGED <<documents, links, embeddings, openai, watcher, opened, nextId,
                   runs, chunker>>

(* an editor writes a markdown file back with the content it has: the     *)
(* watcher sees the change                                                 *)
ExternalTouch(p) ==
    /\ CanStart
    /\ files[p].exists
    /\ events' = Raise(events, p)
    /\ tasks' = [tasks EXCEPT ![NewSlot] =
                    Finished([IdleTask EXCEPT !.kind = "edit", !.path = p],
                             "none")]
    /\ ops' = Append(ops, "edit")
    /\ UNCHANGED <<files, documents, links, embeddings, openai, watcher, opened,
                   nextId, runs, chunker>>

(* a markdown file of the repository is removed (the watcher has no        *)
(* handler for unlink)                                                     *)
ExternalRemove(p) ==
    /\ files[p].exists
    /\ files' = [files EXCEPT ![p] = NoFile]
    /\ ops' = Append(ops, "remove")
    /\ UNCHANGED <<documents, links, embeddings, openai, watcher, opened, events,
                   nextId, tasks, runs, chunker>>

(* initOpenAI(apiKey) with a key                                           *)
InitOpenAI ==
    /\ ~openai
    /\ openai' = TRUE
    /\ UNCHANGED <<files, documents, links, embeddings, watcher, opened, events,
                   nextId, tasks, runs, ops, chunker>>

-----------------------------------------------------------------------------
(* Specifications.                                                         *)

(* ---- POST /api/documents/:id/categorize ------------------------------ *)

(* categorizeDocument(title, content): the defaults without a client or    *)
(* when the request fails, else the provider's answer with a category of   *)
(* the valid list                                                          *)
categorizeDocument ==
    {[category |-> "uncategorized", subcategory |-> ""]}
    \cup (IF openai
          THEN {[category |-> "guide", subcategory |-> "how-to"],
                [category |-> "general", subcategory |-> ""]}
          ELSE {})

(* the request and documents.getById: 404 for an unknown id                *)
CategorizeGetById(id) ==
    /\ CanStart
    /\ tasks' = [tasks EXCEPT ![NewSlot] =
          IF getById(documents, id) = Null
          THEN Finished([IdleTask EXCEPT !.kind = "categorize", !.doc = id],
                        "404")
          ELSE [IdleTask EXCEPT
                  !.kind = "categorize", !.doc = id, !.pc = "cat_update"]]
    /\ ops' = Append(ops, "categorize")
    /\ UNCHANGED <<files, documents, links, embeddings, openai, watcher, opened,
                   events, nextId, runs, chunker>>

(* categorizeDocument answers and documents.updateCategory stores it       *)
CategorizeUpdate(t) ==
    /\ tasks[t].pc = "cat_update"
    /\ \E c \in categorizeDocument :
          /\ documents' = updateCategory(documents, tasks[t].doc,
                                         c.category, c.subcategory)
          /\ tasks' = [tasks EXCEPT ![t] =
                Finished([tasks[t] EXCEPT !.category = c.category,
                                          !.subcategory = c.subcategory],
                         "ok")]
    /\ UNCHANGED <<files, links, embeddings, openai, watcher, opened, events,
                   nextId, runs, ops, chunker>>

TypeOK ==
    /\ files \in [Paths -> FileValues \cup TokenInputs \cup {FileLong, NoFile}]
    /\ openai \in BOOLEAN
    /\ watcher \in BOOLEAN
    /\ opened \in Nat
    /\ events \subseteq Paths
    /\ nextId \in Nat
    /\ ops \in Seq({"save", "full", "delete", "watch", "edit", "search",
                    "remove", "categorize"})
    /\ chunker.pc \in {"none", "loop", "done"}

SyncFileStep(t) ==
    \/ SfRead(t)
    \/ SfGetByPath(t)
    \/ SfUpdate(t)
    \/ SfCreate(t)
    \/ SfGetById(t)
    \/ SfDelLinks(t)
    \/ SfLink(t)
    \/ SfFinish(t)

SaveStep(t) ==
    \/ SaveGetByPath(t)
    \/ SaveCreate(t)
    \/ SaveGetById(t)

SyncRepoStep(t) ==
    \/ PassOneRead(t)
    \/ PassOneGetByPath(t)
    \/ PassOneCreate(t)
    \/ PassOneGetById(t)

DeleteStep(t) ==
    \/ DeleteUnlink(t)
    \/ DeleteRow(t)

(* ---- Spec: concurrent operations on the store ------------------------ *)
(* A server after initialize() on an empty repository, without an OpenAI   *)
(* key: the watcher is open and every re-embedding is rejected at once.    *)
(* Saves, watch events, full syncs and deletes interleave at their awaits. *)

Init ==
    /\ files = [p \in Paths |-> NoFile]
    /\ documents = {}
    /\ links = <<>>
    /\ embeddings = <<>>
    /\ openai = FALSE
    /\ watcher = TRUE
    /\ opened = 1
    /\ events = {}
    /\ nextId = 1
    /\ tasks = [t \in Slots |-> IdleTask]
    /\ runs = <<>>
    /\ ops = <<>>
    /\ chunker = NoCall

RaceInputs == {FileU}

Next ==
    \/ \E p \in Paths, f \in RaceInputs : Len(ops) < MaxOps /\ SaveWrite(p, f)
    \/ Len(ops) < MaxOps /\ SyncRepoGlob
    \/ \E id \in 1..(2 * MaxOps) : Len(ops) < MaxOps /\ DeleteGetById(id)
    \/ \E p \in Paths : Len(ops) < MaxOps /\ WatchEvent(p)
    \/ \E t \in Slots : SyncFileStep(t)
    \/ \E t \in Slots : SaveStep(t)
    \/ \E t \in Slots : SyncRepoStep(t)
    \/ \E t \in Slots : DeleteStep(t)

Spec == Init /\ [][Next]_vars

(* ---- SpecSeq: one operation at a time -------------------------------- *)
(* A server started on a repository that holds any files, before the       *)
(* initial sync and without an OpenAI key; every operation returns before  *)
(* the next one is called.                                                 *)

InitSeq ==
    /\ files \in [Paths -> FileValues \cup {NoFile}]
    /\ documents = {}
    /\ links = <<>>
    /\ embeddings = <<>>
    /\ openai = FALSE
    /\ watcher = FALSE
    /\ opened = 0
    /\ events = {}
    /\ nextId = 1
    /\ tasks = [t \in Slots |-> IdleTask]
    /\ runs = <<>>
    /\ ops = <<>>
    /\ chunker = NoCall

SeqStart == Quiet /\ Len(ops) < MaxSeqOps

NextSeq ==
    \/ \E p \in Paths, f \in FileValues : SeqStart /\ SaveWrite(p, f)
    \/ SeqStart /\ SyncRepoGlob
    \/ \E id \in 1..(2 * MaxSeqOps) : SeqStart /\ DeleteGetById(id)
    \/ \E p \in Paths : SeqStart /\ WatchEvent(p)
    \/ \E p \in Paths, f \in FileValues : SeqStart /\ ExternalEdit(p, f)
    \/ Quiet /\ ~watcher /\ StartWatcher
    \/ \E t \in Slots : SyncFileStep(t)
    \/ \E t \in Slots : SaveStep(t)
    \/ \E t \in Slots : SyncRepoStep(t)
    \/ \E t \in Slots : DeleteStep(t)

SpecSeq == InitSeq /\ [][NextSeq]_vars

(* ---- SpecEmbed: re-embedding with a configured client ---------------- *)
(* As Spec, with an OpenAI key: saves, the watch events their writes       *)
(* raise, deletes, and the re-embedding runs the syncs start.              *)

InitEmbed ==
    /\ files = [p \in Paths |-> NoFile]
    /\ documents = {}
    /\ links = <<>>
    /\ embeddings = <<>>
    /\ openai = TRUE
    /\ watcher = TRUE
    /\ opened = 1
    /\ events = {}
    /\ nextId = 1
    /\ tasks = [t \in Slots |-> IdleTask]
    /\ runs = <<>>
    /\ ops = <<>>
    /\ chunker = NoCall

EmbedInputs == {FileU, FileX}

NextEmbed ==
    \/ \E p \in Paths, f \in EmbedInputs : Len(ops) < MaxOps /\ SaveWrite(p, f)
    \/ \E p \in Paths : Len(ops) < MaxOps /\ WatchEvent(p)
    \/ \E id \in 1..(2 * MaxOps) : Len(ops) < MaxOps /\ DeleteGetById(id)
    \/ \E t \in Slots : SyncFileStep(t)
    \/ \E t \in Slots : SaveStep(t)
    \/ \E t \in Slots : DeleteStep(t)
    \/ \E n \in 1..MaxOps : EmbedChunk(n)

SpecEmbed == InitEmbed /\ [][NextEmbed]_vars

(* every awaited call of an operation in flight completes, and the         *)
(* provider answers every embedding request                                *)
SpecEmbedLive ==
    /\ SpecEmbed
    /\ WF_vars(\E t \in Slots : SyncFileStep(t) \/ SaveStep(t) \/ DeleteStep(t))
    /\ WF_vars(\E n \in 1..MaxOps : EmbedChunk(n))

(* ---- SpecNoKey: a restart without an OpenAI key ----------------------- *)
(* A server restarted without a key on the store an earlier process, with  *)
(* a key, left after saveDocument('a.md', '[[U|me]]', {title: 'U'}): one   *)
(* Document, its Link row and its chunk row.  A key may be set later       *)
(* (PUT /api/settings/openai_api_key).                                     *)

SelfMap == MapSet(EmptyMap, ToLowerCase(FileU.title), 1)

InitNoKey ==
    /\ files = [p \in Paths |-> IF p = PathA THEN FileU ELSE NoFile]
    /\ documents = DocCreate({}, 1, PathA, FileU.title, FileU.body,
                             processWikiLinks(FileU.body, SelfMap))
    /\ links = LinksCreate(<<>>, 1, 1, wikiLinks[FileU.body][1].targetPath,
                           wikiLinks[FileU.body][1].linkText)
    /\ embeddings = EmbeddingsCreate(<<>>, 1, 0, chunkText(FileU.body)[1])
    /\ openai = FALSE
    /\ watcher = TRUE
    /\ opened = 1
    /\ events = {}
    /\ nextId = 2
    /\ tasks = [t \in Slots |-> IdleTask]
    /\ runs = <<>>
    /\ ops = <<>>
    /\ chunker = NoCall

NextNoKey ==
    \/ Len(ops) < MaxOps /\ SearchCall(<<"q">>, MaxLimit)
    \/ \E p \in Paths, f \in EmbedInputs : Len(ops) < MaxOps /\ SaveWrite(p, f)
    \/ \E p \in Paths : Len(ops) < MaxOps /\ WatchEvent(p)
    \/ InitOpenAI
    \/ \E t \in Slots : SsEmbed(t) \/ SsGetAll(t)
    \/ \E t \in Slots : SyncFileStep(t)
    \/ \E t \in Slots : SaveStep(t)
    \/ \E n \in 1..MaxOps : EmbedChunk(n)

SpecNoKey == InitNoKey /\ [][NextNoKey]_vars

(* ---- SpecBatch: full syncs of a repository that loses files ---------- *)
(* A server started on a repository that holds any files, without a key,   *)
(* its watcher running; full syncs and the syncs for an editor's writes    *)
(* run one after the other, and files may be removed at any time, also     *)
(* between the glob and the reads of a running sync.                       *)

InitBatch ==
    /\ files \in [Paths -> {FileT, FileU, NoFile}]
    /\ documents = {}
    /\ links = <<>>
    /\ embeddings = <<>>
    /\ openai = FALSE
    /\ watcher = TRUE
    /\ opened = 1
    /\ events = {}
    /\ nextId = 1
    /\ tasks = [t \in Slots |-> IdleTask]
    /\ runs = <<>>
    /\ ops = <<>>
    /\ chunker = NoCall

NextBatch ==
    \/ Quiet /\ Len(ops) < MaxSeqOps /\ SyncRepoGlob
    \/ \E p \in Paths : Len(ops) < MaxSeqOps /\ ExternalRemove(p)
    \/ \E p \in Paths, f \in {FileT, FileU} :
          Quiet /\ Len(ops) < MaxSeqOps /\ ExternalEdit(p, f)
    \/ \E p \in Paths : Quiet /\ Len(ops) < MaxSeqOps /\ WatchEvent(p)
    \/ \E t \in Slots : SyncFileStep(t)
    \/ \E t \in Slots : SyncRepoStep(t)

SpecBatch == InitBatch /\ [][NextBatch]_vars

(* ---- SpecWatch: the watcher and an editor ----------------------------- *)
(* A server after initialize() on an empty repository, without a key: an   *)
(* editor writes files, the watcher's handlers run for the events, and     *)
(* startWatcher / stopWatcher are called at any time.                      *)

InitWatch ==
    /\ files = [p \in Paths |-> NoFile]
    /\ documents = {}
    /\ links = <<>>
    /\ embeddings = <<>>
    /\ openai = FALSE
    /\ watcher = TRUE
    /\ opened = 1
    /\ events = {}
    /\ nextId = 1
    /\ tasks = [t \in Slots |-> IdleTask]
    /\ runs = <<>>
    /\ ops = <<>>
    /\ chunker = NoCall

NextWatch ==
    \/ \E p \in Paths, f \in EmbedInputs :
          Len(ops) < MaxWatchOps /\ ExternalEdit(p, f)
    \/ \E p \in Paths : Len(ops) < MaxWatchOps /\ WatchEvent(p)
    \/ StartWatcher
    \/ StopWatcher
    \/ \E t \in Slots : SyncFileStep(t)

SpecWatch == InitWatch /\ [][NextWatch]_vars

(* ---- SpecProvider: a provider that may fail -------------------------- *)
(* A server on an empty repository, with or without an OpenAI key, its     *)
(* watcher running; saves, full syncs and the syncs for an editor's writes *)
(* are called one after the other, the re-embedding runs they start go on  *)
(* in the background, and the provider may reject any request.             *)

InitProvider ==
    /\ files = [p \in Paths |-> NoFile]
    /\ documents = {}
    /\ links = <<>>
    /\ embeddings = <<>>
    /\ openai \in BOOLEAN
    /\ watcher = TRUE
    /\ opened = 1
    /\ events = {}
    /\ nextId = 1
    /\ tasks = [t \in Slots |-> IdleTask]
    /\ runs = <<>>
    /\ ops = <<>>
    /\ chunker = NoCall

ProviderInputs == {FileU, FileLong}

ProviderStart == Quiet /\ Len(ops) < MaxOps

NextProvider ==
    \/ \E p \in Paths, f \in ProviderInputs : ProviderStart /\ SaveWrite(p, f)
    \/ ProviderStart /\ SyncRepoGlob
    \/ \E p \in Paths, f \in ProviderInputs :
          ProviderStart /\ ExternalEdit(p, f)
    \/ \E p \in Paths : ProviderStart /\ WatchEvent(p)
    \/ \E t \in Slots : SyncFileStep(t)
    \/ \E t \in Slots : SaveStep(t)
    \/ \E t \in Slots : SyncRepoStep(t)
    \/ \E n \in 1..MaxOps : EmbedChunk(n)
    \/ \E n \in 1..MaxOps : EmbedFail(n)

SpecProvider == InitProvider /\ [][NextProvider]_vars

(* ---- SpecTokens: the token syntax of wiki links ----------------------- *)
(* A server after initialize() on an empty repository, without a key, its  *)
(* watcher running; saves, an editor's writes with their watch events and  *)
(* full syncs are called one after the other, over files whose bodies      *)
(* hold tokens with several "|", with a blank target and with no target.   *)

InitTokens ==
    /\ files = [p \in Paths |-> NoFile]
    /\ documents = {}
    /\ links = <<>>
    /\ embeddings = <<>>
    /\ openai = FALSE
    /\ watcher = TRUE
    /\ opened = 1
    /\ events = {}
    /\ nextId = 1
    /\ tasks = [t \in Slots |-> IdleTask]
    /\ runs = <<>>
    /\ ops = <<>>
    /\ chunker = NoCall

NextTokens ==
    \/ \E p \in Paths, f \in TokenInputs : SeqStart /\ SaveWrite(p, f)
    \/ \E p \in Paths, f \in TokenInputs : SeqStart /\ ExternalEdit(p, f)
    \/ \E p \in Paths : SeqStart /\ WatchEvent(p)
    \/ SeqStart /\ SyncRepoGlob
    \/ \E t \in Slots : SyncFileStep(t)
    \/ \E t \in Slots : SaveStep(t)
    \/ \E t \in Slots : SyncRepoStep(t)

SpecTokens == InitTokens /\ [][NextTokens]_vars

(* ---- SpecSearch: semantic search over an indexed repository ----------- *)
(* A server with an OpenAI key started on a repository that holds any of   *)
(* the files of SearchInputs, before its initial sync, the watcher         *)
(* running; full syncs, an editor's writes with their watch events and     *)
(* searches are called one after the other, the re-embedding runs go on in *)
(* the background.                                                         *)

SearchInputs == {FileLong, FilePipes}

InitSearch ==
    /\ files \in [Paths -> SearchInputs \cup {NoFile}]
    /\ documents = {}
    /\ links = <<>>
    /\ embeddings = <<>>
    /\ openai = TRUE
    /\ watcher = TRUE
    /\ opened = 1
    /\ events = {}
    /\ nextId = 1
    /\ tasks = [t \in Slots |-> IdleTask]
    /\ runs = <<>>
    /\ ops = <<>>
    /\ chunker = NoCall

SearchStart == Quiet /\ Len(ops) < MaxOps

NextSearch ==
    \/ SearchStart /\ SyncRepoGlob
    \/ \E q \in QueryTexts, l \in 1..MaxLimit : SearchStart /\ SearchCall(q, l)
    \/ \E p \in Paths, f \in SearchInputs : SearchStart /\ ExternalEdit(p, f)
    \/ \E p \in Paths : SearchStart /\ WatchEvent(p)
    \/ \E t \in Slots : SsEmbed(t) \/ SsGetAll(t)
    \/ \E t \in Slots : SyncFileStep(t)
    \/ \E t \in Slots : SyncRepoStep(t)
    \/ \E n \in 1..MaxOps : EmbedChunk(n)

SpecSearch == InitSearch /\ [][NextSearch]_vars

(* ---- SpecChunk: chunkText on its own ---------------------------------- *)
(* chunkText(text) with the default maxChunkSize and overlap, called with  *)
(* any text of ChunkTexts; the loop is not interrupted (it has no await),  *)
(* the store and the repository are those of a server just started.        *)

InitChunk ==
    /\ files = [p \in Paths |-> NoFile]
    /\ documents = {}
    /\ links = <<>>
    /\ embeddings = <<>>
    /\ openai = TRUE
    /\ watcher = TRUE
    /\ opened = 1
    /\ events = {}
    /\ nextId = 1
    /\ tasks = [t \in Slots |-> IdleTask]
    /\ runs = <<>>
    /\ ops = <<>>
    /\ chunker \in {CallOf(text) : text \in ChunkTexts}

NextChunk ==
    \/ ChunkTurn
    \/ ChunkReturn

SpecChunk == InitChunk /\ [][NextChunk]_vars

-----------------------------------------------------------------------------
(* Properties.                                                             *)

Range(seq) == {seq[i] : i \in 1..Len(seq)}

IsSync(t) == tasks[t].kind \in {"save", "watch", "full"}

IsIncremental(t) == tasks[t].kind \in {"save", "watch"}

Returned(t, res) == tasks[t].pc = "done" /\ tasks[t].result = res

DocAt(path) == CHOOSE d \in documents : d.path = path

DocOf(id) == CHOOSE d \in documents : d.id = id

(* the Link rows a sync of `body` writes for document id under docMap      *)
LinkRows(id, body, docMap) ==
    LET wl == extractWikiLinks(body)
    IN  [i \in 1..Len(wl) |->
            [source_id |-> id,
             target_id |-> MapGet(docMap, ToLowerCase(wl[i].targetPath)),
             target_path |-> wl[i].targetPath,
             link_text |-> wl[i].linkText]]

(* C1: under any interleaving of full syncs, saves, watch-triggered syncs  *)
(* and deletes, at most one Document exists per path, and a step never     *)
(* changes the id of the Document of a path that has one before and after  *)
(* it: a sync of a known path updates the row, it never adds a second one. *)
C1_OneDocumentPerPath ==
    /\ [](\A d, e \in documents : d.path = e.path => d = e)
    /\ [][\A d \in documents : \A e \in documents' :
              d.path = e.path => d.id = e.id]_vars

(* two syncs of one path have returned the same Document, the only row of  *)
(* that path                                                               *)
C1_Witness ==
    \E t, u \in Slots :
        /\ t # u
        /\ IsSync(t) /\ IsSync(u)
        /\ Returned(t, "doc") /\ Returned(u, "doc")
        /\ tasks[t].path = tasks[u].path
        /\ tasks[t].doc = tasks[u].doc
        /\ Cardinality({d \in documents : d.path = tasks[t].path}) = 1

(* C7: every Link row's sourceId is the id of a Document of the store,     *)
(* in every reachable state.                                               *)
C7_SourceExists ==
    \A i \in 1..Len(links) : links[i].source_id \in DocIds(documents)

(* what one incremental sync, run alone, leaves for its document           *)
SyncOutput(t) ==
    LET tk == tasks[t]
    IN  [title   |-> SyncTitle(tk.file),
         content |-> tk.file.body,
         html    |-> processWikiLinks(tk.file.body, tk.docMap),
         links   |-> LinkRows(tk.doc, tk.file.body, tk.docMap)]

StoredOutput(id) ==
    [title   |-> DocOf(id).title,
     content |-> DocOf(id).content,
     html    |-> DocOf(id).html,
     links   |-> LinksOf(links, id)]

(* C9: when two incremental syncs of one path (a save and a watch event)   *)
(* have both returned the Document, its stored fields together with its    *)
(* Link rows are the full output of one of the two syncs.                  *)
C9_OneWritersOutput ==
    \A t, u \in Slots :
        ( /\ t # u
          /\ Quiet
          /\ tasks[t].kind = "save" /\ tasks[u].kind = "watch"
          /\ Returned(t, "doc") /\ Returned(u, "doc")
          /\ tasks[t].path = tasks[u].path
          /\ tasks[t].doc = tasks[u].doc
          /\ tasks[t].doc \in DocIds(documents) )
        => StoredOutput(tasks[t].doc) \in {SyncOutput(t), SyncOutput(u)}

(* the two keys syncRepo registers for the file at path p                  *)
Keys(p, file) ==
    {ToLowerCase(StubTitle(file)), ToLowerCase(StripMd(p))}

FullSyncReturned(t) == tasks[t].kind = "full" /\ Returned(t, "count")

(* the document of the file that registered key last in the first pass     *)
LastHolder(order, key) ==
    LET holders == {k \in 1..Len(order) :
                        key \in Keys(order[k], files[order[k]])}
    IN  IF holders = {} THEN Null
        ELSE getByPath(documents,
                 order[CHOOSE k \in holders : \A j \in holders : j <= k])

(* C2 as stated: after a full sync, every link token of a file A whose     *)
(* target is, case-insensitively, the title or the stripped path of a      *)
(* file B of the corpus is a Link row of A with targetId = B's id.         *)
C2_Original ==
    \A t \in Slots :
        FullSyncReturned(t) =>
            \A a, b \in Range(tasks[t].order) :
                LET wl == extractWikiLinks(files[a].body)
                    rows == LinksOf(links, getByPath(documents, a))
                IN  \A i \in 1..Len(wl) :
                        ToLowerCase(wl[i].targetPath) \in Keys(b, files[b])
                        => /\ i <= Len(rows)
                           /\ rows[i].target_path = wl[i].targetPath
                           /\ rows[i].target_id = getByPath(documents, b)

(* C2: after a full sync, the Link rows of every file A of the corpus are  *)
(* its link tokens in order, and the row of a token whose target is,       *)
(* case-insensitively, the title or the stripped path of files of the      *)
(* corpus has targetId = the id of the Document of the one of them that    *)
(* the enumeration visited last (of B itself when the key is B's alone),   *)
(* also when that file is visited after A; no such file, targetId = null.  *)
C2_Amended ==
    \A t \in Slots :
        FullSyncReturned(t) =>
            \A a \in Range(tasks[t].order) :
                LET wl == extractWikiLinks(files[a].body)
                    rows == LinksOf(links, getByPath(documents, a))
                IN  /\ Len(rows) = Len(wl)
                    /\ \A i \in 1..Len(wl) :
                          /\ rows[i].target_path = wl[i].targetPath
                          /\ rows[i].target_id =
                                LastHolder(tasks[t].order,
                                           ToLowerCase(wl[i].targetPath))

(* a full sync visited A before B and stored A's link to B's title or      *)
(* path with B's id                                                        *)
C2_Witness ==
    \E t \in Slots :
        /\ FullSyncReturned(t)
        /\ Len(tasks[t].order) = 2
        /\ LET a == tasks[t].order[1]
               b == tasks[t].order[2]
               rows == LinksOf(links, getByPath(documents, a))
           IN  \E i \in 1..Len(rows) :
                  /\ ToLowerCase(rows[i].target_path) \in Keys(b, files[b])
                  /\ ToLowerCase(rows[i].target_path) \notin Keys(a, files[a])
                  /\ rows[i].target_id = getByPath(documents, b)
                  /\ rows[i].target_id # Null

(* C3: as long as no full sync has been started, a Link row written by     *)
(* the incremental syncs (saves, watch events) has targetId = null unless  *)
(* it names its own document, so A's link to another document B stays      *)
(* null when B is synced after A; once a full sync has returned, A's link  *)
(* to a key that only B holds has targetId = B's id.                       *)
C3_UnresolvedUntilFullSync ==
    /\ "full" \notin Range(ops) =>
          \A i \in 1..Len(links) :
              links[i].target_id \in {Null, links[i].source_id}
    /\ \A t \in Slots :
          FullSyncReturned(t) =>
              \A a, b \in Range(tasks[t].order) :
                  LET rows == LinksOf(links, getByPath(documents, a))
                  IN  \A i \in 1..Len(rows) :
                        ( /\ a # b
                          /\ ToLowerCase(rows[i].target_path)
                                \in Keys(b, files[b])
                          /\ ToLowerCase(rows[i].target_path)
                                \notin Keys(a, files[a]) )
                        => rows[i].target_id = getByPath(documents, b)

(* A and B were synced by incremental syncs only, both Documents exist,    *)
(* and A's link to B's title or path is stored with targetId = null        *)
C3_Witness ==
    /\ Quiet
    /\ Len(ops) >= 2
    /\ Range(ops) \subseteq {"save", "watch", "edit"}
    /\ \E a, b \in Paths :
          /\ a # b
          /\ getByPath(documents, a) # Null
          /\ getByPath(documents, b) # Null
          /\ LET rows == LinksOf(links, getByPath(documents, a))
             IN  \E i \in 1..Len(rows) :
                    /\ ToLowerCase(rows[i].target_path)
                          \in Keys(b, [title |-> DocAt(b).title])
                    /\ rows[i].target_id = Null

DeleteReturns(t) == tasks[t].pc = "dl_delete" /\ tasks'[t].pc = "done"

(* C6: the step in which deleteDocument deletes Document D leaves the Link *)
(* rows of every other source unchanged, a targetId equal to D's id        *)
(* included; and the rows of a source change only in a step of a sync of   *)
(* that source (its links.deleteForDocument or a links.create).            *)
C6_OthersLinksUnchanged ==
    [][ /\ \A t \in Slots :
              DeleteReturns(t) =>
                  SelectSeq(links', LAMBDA l : l.source_id # tasks[t].doc)
                    = SelectSeq(links, LAMBDA l : l.source_id # tasks[t].doc)
        /\ \A s \in 1..nextId :
              LinksOf(links', s) # LinksOf(links, s) =>
                  \E t \in Slots : /\ tasks[t].pc \in {"sf_delLinks", "sf_link"}
                                   /\ tasks[t].doc = s ]_vars

(* a delete has returned true and a Link of another, existing Document     *)
(* still carries the deleted Document's id as its targetId                 *)
C6_Witness ==
    \E t \in Slots :
        /\ tasks[t].kind = "delete" /\ Returned(t, "true")
        /\ tasks[t].doc \notin DocIds(documents)
        /\ \E i \in 1..Len(links) :
              /\ links[i].target_id = tasks[t].doc
              /\ links[i].source_id # tasks[t].doc
              /\ links[i].source_id \in DocIds(documents)

(* the chunk rows of document id are the chunks, each under its index      *)
ChunkRowsAre(id, chunks) ==
    LET rows == ChunksOf(embeddings, id)
    IN  /\ Len(rows) = Len(chunks)
        /\ \A k \in 1..Len(chunks) :
              \E j \in 1..Len(rows) : /\ rows[j].chunk_index = k - 1
                                      /\ rows[j].chunk_text = chunks[k]

(* C4: when two incremental syncs of one path that read the same file      *)
(* have both returned and every re-embedding they started has finished,    *)
(* they returned the same Document id, the Document has as many chunk rows *)
(* as the chunker yields for the file, and its Link rows are the rows of   *)
(* either sync alone, each once.                                           *)
C4_IdempotentResync ==
    \A t, u \in Slots :
        ( /\ t # u
          /\ Quiet /\ runs = <<>>
          /\ IsIncremental(t) /\ IsIncremental(u)
          /\ Returned(t, "doc") /\ Returned(u, "doc")
          /\ tasks[t].path = tasks[u].path
          /\ tasks[t].file = tasks[u].file
          /\ tasks[t].doc \in DocIds(documents) )
        => /\ tasks[u].doc = tasks[t].doc
           /\ Len(ChunksOf(embeddings, tasks[t].doc))
                 = Len(chunkText(tasks[t].file.body))
           /\ LinksOf(links, tasks[t].doc)
                 = LinkRows(tasks[t].doc, tasks[t].file.body, tasks[t].docMap)

(* C5: the step in which deleteDocument(id) deletes the row and returns    *)
(* true leaves no Document with that id, no Link row with that source_id   *)
(* and no embeddings row with that document_id.                            *)
C5_DeleteCascades ==
    [][ \A t \in Slots :
            DeleteReturns(t) =>
                /\ tasks[t].doc \notin DocIds(documents')
                /\ LinksOf(links', tasks[t].doc) = <<>>
                /\ ChunksOf(embeddings', tasks[t].doc) = <<>> ]_vars

(* C8: for every Document with no re-embedding run in flight, the chunk    *)
(* rows carry the indices 0..n-1 once each and are the chunks of one       *)
(* content revision.                                                       *)
C8_ChunksOfOneRevision ==
    \A d \in documents :
        (\A n \in 1..Len(runs) : runs[n].doc # d.id) =>
            \/ ChunksOf(embeddings, d.id) = <<>>
            \/ \E f \in FileValues : ChunkRowsAre(d.id, chunkText(f.body))

(* C10: with a configured provider, from some point on the chunk rows of   *)
(* every Document a sync has returned are the chunker's output for the     *)
(* content the store holds for it.                                         *)
C10_EventuallyConsistent ==
    <>[](\A t \in Slots :
            ( /\ IsIncremental(t) /\ Returned(t, "doc")
              /\ tasks[t].doc \in DocIds(documents) )
            => ChunkRowsAre(tasks[t].doc,
                            chunkText(DocOf(tasks[t].doc).content)))

(* the step in which run n ends on a rejected provider request            *)
RunFails(n) == runs' = RemoveAt(runs, n) /\ embeddings' = embeddings

(* C11: the step in which a re-embedding run of a document ends on a       *)
(* failed provider request leaves the document with zero chunk rows.       *)
C11_FailureLeavesNoChunks ==
    [][ \A n \in 1..Len(runs) :
            RunFails(n) => ChunksOf(embeddings', runs[n].doc) = <<>> ]_vars

(* C12: while no client is configured, every semanticSearch call has       *)
(* returned an error (none is in flight, none returned a result list), and *)
(* no step changes the embeddings table or starts a re-embedding run: a    *)
(* reindex leaves the existing chunk rows as they are.                     *)
C12_NoProviderFailsFast ==
    /\ [](~openai => \A t \in Slots :
                        tasks[t].kind = "search" => Returned(t, "error"))
    /\ [][~openai => embeddings' = embeddings /\ runs' = runs]_vars

(* without a client, a search has returned an error and a sync has         *)
(* returned a Document whose chunk rows are still there                    *)
C12_Witness ==
    /\ ~openai
    /\ \E t, u \in Slots :
          /\ tasks[t].kind = "search" /\ Returned(t, "error")
          /\ IsIncremental(u) /\ Returned(u, "doc")
          /\ ChunksOf(embeddings, tasks[u].doc) # <<>>

(* the Document of path p holds the file's body and the Link rows a sync   *)
(* of the file writes under docMap                                         *)
Persisted(p, file, docMap) ==
    LET id == getByPath(documents, p)
    IN  /\ id # Null
        /\ DocOf(id).content = file.body
        /\ DocOf(id).title = SyncTitle(file)
        /\ LinksOf(links, id) = LinkRows(id, file.body, docMap)

(* C13: with no client, or with a provider that rejects requests, every    *)
(* save has returned the Document, never null and never an error, every    *)
(* full sync has returned its count, and the Document row and the Link     *)
(* rows of each synced file are stored.                                    *)
C13_ReindexFailureSwallowed ==
    \A t \in Slots :
        /\ (IsIncremental(t) /\ tasks[t].pc = "done") =>
              /\ tasks[t].result = "doc"
              /\ tasks[t].doc = getByPath(documents, tasks[t].path)
              /\ Persisted(tasks[t].path, tasks[t].file, tasks[t].docMap)
        /\ (tasks[t].kind = "full" /\ tasks[t].pc = "done") =>
              /\ tasks[t].result = "count"
              /\ \A p \in Range(tasks[t].order) :
                    Persisted(p, files[p], tasks[t].docMap)

(* a save has returned the Document although its re-embedding failed: the  *)
(* client is configured, no run is left, and rows of the chunk set are     *)
(* missing                                                                 *)
C13_Witness ==
    /\ openai /\ runs = <<>>
    /\ \E t \in Slots :
          /\ tasks[t].kind = "save" /\ Returned(t, "doc")
          /\ Len(ChunksOf(embeddings, tasks[t].doc))
                < Len(chunkText(tasks[t].file.body))

(* C14: every full sync that has ended has returned normally, and the     *)
(* Document of every file it enumerated that is (still) readable holds     *)
(* the file's content and Link rows, whatever happened to the other files. *)
C14_PerFileIsolation ==
    \A t \in Slots :
        (tasks[t].kind = "full" /\ tasks[t].pc = "done") =>
            /\ tasks[t].result = "count"
            /\ \A p \in Range(tasks[t].order) :
                  files[p].exists => Persisted(p, files[p], tasks[t].docMap)

(* C15: the number a full sync returns is the number of files whose        *)
(* syncFile returned a Document.                                           *)
C15_CountsSyncedDocuments ==
    \A t \in Slots :
        FullSyncReturned(t) => tasks[t].count = tasks[t].synced

(* POST /api/documents: res.json(doc) for whatever saveDocument returns,   *)
(* status 500 when it throws                                               *)
SaveResponse(result) == IF result = "error" THEN "500" ELSE "200"

(* C16: a save that has ended has returned the Document or thrown, never   *)
(* null, and the endpoint answers success only for a returned Document.    *)
C16_FailedSaveReportsError ==
    \A t \in Slots :
        (tasks[t].kind = "save" /\ tasks[t].pc = "done") =>
            /\ tasks[t].result # "null"
            /\ SaveResponse(tasks[t].result) = "200"
                  => tasks[t].result = "doc"

(* C17: two syncs started by watch events of one path are never in       *)
(* flight at the same time.                                                *)
C17_WatchSyncsCoalesced ==
    \A t, u \in Slots :
        ( /\ t # u
          /\ tasks[t].kind = "watch" /\ tasks[u].kind = "watch"
          /\ tasks[t].path = tasks[u].path )
        => ~(InFlight(t) /\ InFlight(u))

(* C18: the number of open watchers is 1 when `watcher` is set and 0 when  *)
(* it is not, in every state and so after every start and stop; a stopped  *)
(* watcher has no event left to emit; and a step that starts a sync for a  *)
(* watch event is taken only while the watcher is running.                 *)
C18_WatcherStoppedOrRunning ==
    /\ [](opened = IF watcher THEN 1 ELSE 0)
    /\ [](~watcher => events = {})
    /\ [][(Len(ops') > Len(ops) /\ ops'[Len(ops')] = "watch")
             => watcher]_vars

(* the watcher was running, served an event and was stopped; the edit made *)
(* after the stop left no event                                            *)
C18_Witness ==
    /\ ~watcher /\ opened = 0
    /\ "watch" \in Range(ops)
    /\ ops[Len(ops)] = "edit"
    /\ events = {}

(* C19: when an incremental sync, started by a save or by a watch event,  *)
(* has returned its document, every Link row of that document whose target *)
(* is, case-insensitively, the document's own title has the document's own *)
(* id as target_id.                                                        *)
C19_SelfLinkResolved ==
    \A t \in Slots :
        (IsIncremental(t) /\ Returned(t, "doc"))
        => LET d == DocAt(tasks[t].path)
           IN  \A i \in 1..Len(links) :
                   ( /\ links[i].source_id = d.id
                     /\ ToLowerCase(links[i].target_path)
                            = ToLowerCase(d.title) )
                   => links[i].target_id = d.id

(* the second pass of a full sync: syncFile for one of the files           *)
InPhaseTwo(t) ==
    /\ tasks[t].kind = "full"
    /\ tasks[t].pc \in {"sf_read", "sf_getByPath", "sf_update", "sf_create",
                        "sf_getById", "sf_delLinks", "sf_link"}

(* C20: while a full sync is in its second pass, every enumerated file has *)
(* a Document row and its title key and its path key are in the lookup     *)
(* map; and no step of the second pass changes the map or returns to the   *)
(* first pass.                                                             *)
C20_MapCompleteBeforeResolution ==
    /\ [](\A t \in Slots : InPhaseTwo(t) =>
            \A i \in 1..Len(tasks[t].order) :
                LET p == tasks[t].order[i]
                IN  /\ getByPath(documents, p) # Null
                    /\ \A key \in Keys(p, files[p]) :
                           MapGet(tasks[t].docMap, key) # Null)
    /\ [][\A t \in Slots : InPhaseTwo(t) =>
            /\ tasks'[t].docMap = tasks[t].docMap
            /\ tasks'[t].pc \notin {"p1_read", "p1_getByPath", "p1_create",
                                    "p1_getById"}]_vars

(* the second pass resolves the links of the second of two files           *)
C20_Witness ==
    \E t \in Slots :
        /\ InPhaseTwo(t)
        /\ Len(tasks[t].order) = 2
        /\ tasks[t].k = 2
        /\ tasks[t].pc = "sf_link"
        /\ Cardinality(DOMAIN tasks[t].docMap) >= 3

(* the (targetPath, linkText) pairs of the Link rows of document id        *)
RowPairs(id) ==
    LET rows == LinksOf(links, id)
    IN  [i \in 1..Len(rows) |-> <<rows[i].target_path, rows[i].link_text>>]

(* C21: when an incremental sync has returned its document, the Link rows  *)
(* of the document are, token by token, the key before the first "|" and   *)
(* the whole remainder after it (the key when there is no remainder).      *)
C21_SplitAtFirstBar ==
    \A t \in Slots :
        (IsIncremental(t) /\ Returned(t, "doc")) =>
            LET toks == LinkTokens(tasks[t].file.body, 1)
                FirstBar(tok) == IndexOf(tok, <<"|">>, 0)
                KeyOf(tok) ==
                    IF FirstBar(tok) = -1 THEN Trim(tok)
                    ELSE Trim(Slice(tok, 0, FirstBar(tok)))
                RemainderOf(tok) ==
                    IF FirstBar(tok) = -1 THEN <<>>
                    ELSE Trim(Slice(tok, FirstBar(tok) + 1, Len(tok)))
            IN  RowPairs(tasks[t].doc) =
                    [i \in 1..Len(toks) |->
                        <<KeyOf(toks[i]),
                          IF RemainderOf(toks[i]) # <<>>
                          THEN RemainderOf(toks[i]) ELSE KeyOf(toks[i])>>]

(* C22: no Link row has an empty targetPath.                               *)
C22_NoEmptyTarget ==
    \A i \in 1..Len(links) : links[i].target_path # <<>>

(* the anchors of the stored HTML and the Link rows of document d agree    *)
AnchorsMatchRows(d) ==
    LET rows == LinksOf(links, d.id)
    IN  /\ Len(d.html) = Len(rows)
        /\ \A i \in 1..Len(rows) : d.html[i].href = rows[i].target_id

Occurrences(text, c) ==
    {o \in 0..(Len(text) - Len(c)) : SubSeq(text, o + 1, o + Len(c)) = c}

(* The lengths of the prefixes of text that can be put together from the   *)
(* first i chunks, each chunk laid over the end of the prefix before it    *)
(* by a (possibly empty) prefix of its own that equals that end.           *)
RECURSIVE Rebuilt(_, _, _)
Rebuilt(text, chunks, i) ==
    IF i = 0 THEN {0}
    ELSE LET before == Rebuilt(text, chunks, i - 1)
             c == chunks[i]
         IN  {o + Len(c) : o \in {x \in Occurrences(text, c) :
                                     \E m \in before :
                                         x <= m /\ m - x <= Len(c)}}

(* C24: when chunkText has returned, the text can be put together again    *)
(* from its chunks, in order, by dropping from each chunk a prefix that    *)
(* repeats the end of what the chunks before it gave.                      *)
C24_ChunksRebuildText ==
    chunker.pc = "done" =>
        Len(chunker.text) \in
            Rebuilt(chunker.text, chunker.chunks, Len(chunker.chunks))

(* a sentence terminator or a paragraph break at offset b                  *)
BreakAt(text, b) ==
    StartsAt(text, <<".", " ">>, b) \/ StartsAt(text, <<"\n", "\n">>, b)

(* C25: in every turn of the loop, the end differs from                    *)
(* start + maxChunkSize only when a break lies at or after that end minus  *)
(* overlap and before that end plus 200; and when there is no such break,  *)
(* or that end is at or past the end of the text, the chunk is the trimmed *)
(* substring [start, start + maxChunkSize).                                *)
C25_SnapOnlyAtBreak ==
    \A i \in 1..Len(chunker.spans) :
        LET start == chunker.spans[i][1]
            end0 == start + MaxChunkSize
            candidates == {b \in (end0 - Overlap)..(end0 + SnapWindow - 1) :
                              BreakAt(chunker.text, b)}
        IN  /\ chunker.spans[i][2] # end0 => candidates # {}
            /\ (candidates = {} \/ end0 >= Len(chunker.text)) =>
                  chunker.chunks[i] = Trim(Slice(chunker.text, start, end0))

(* C27: every chunk the chunker has emitted is non-empty, and the call     *)
(* with a zero-length text returns no chunk.                               *)
C27_ChunksNonEmpty ==
    /\ \A i \in 1..Len(chunker.chunks) : chunker.chunks[i] # <<>>
    /\ (chunker.pc = "done" /\ chunker.text = <<>>) => chunker.chunks = <<>>

(* C30: chunkText with the default parameters returns for every text:      *)
(* every turn of the loop leaves start larger than it found it, also when  *)
(* the boundary search moved the end, and a turn is taken only while       *)
(* start is below the length of the text, so that the loop takes at most   *)
(* as many turns as the text has characters and then returns; and every    *)
(* chunk covers at most maxChunkSize + 200 characters of the text.         *)
C30_ChunkerTerminates ==
    /\ [][(chunker.pc = "loop" /\ chunker'.pc = "loop")
            => /\ chunker.start < Len(chunker.text)
               /\ chunker'.start > chunker.start]_vars
    /\ [](/\ Len(chunker.spans) <= Len(chunker.text)
          /\ (chunker.pc = "loop"
                /\ ~(chunker.start < Len(chunker.text)))
                   => ENABLED ChunkReturn)
    /\ [](\A i \in 1..Len(chunker.spans) :
            /\ chunker.spans[i][2] - chunker.spans[i][1]
                  <= MaxChunkSize + SnapWindow
            /\ Len(chunker.chunks[i]) <= MaxChunkSize + SnapWindow)

(* the call has returned after two turns, the first of which ended at a    *)
(* break before start + maxChunkSize                                       *)
C30_Witness ==
    /\ chunker.pc = "done"
    /\ Len(chunker.spans) >= 2
    /\ chunker.spans[1][2] < MaxChunkSize
    /\ chunker.spans[2][1] > 0

(* C26: a search that has returned its results returned min(limit, N) of   *)
(* the N rows it read, each row at most once, in non-increasing order of   *)
(* similarity; no row left out is more similar than a returned one; rows   *)
(* of equal similarity come in the order of their insertion; and the rows  *)
(* it read are the rows of the table when it read them.                    *)
C26_TopKBySimilarity ==
    /\ [](\A t \in Slots :
            (tasks[t].kind = "search" /\ Returned(t, "results")) =>
                LET res == tasks[t].rows
                    all == tasks[t].all
                    taken == {res[i].pos : i \in 1..Len(res)}
                IN  /\ tasks[t].limit >= 1
                    /\ Len(res) = Min(tasks[t].limit, Len(all))
                    /\ Cardinality(taken) = Len(res)
                    /\ \A i \in 1..Len(res) :
                          /\ res[i].pos \in 1..Len(all)
                          /\ res[i] = all[res[i].pos]
                    /\ \A i, j \in 1..Len(res) :
                          i < j =>
                            /\ res[i].similarity >= res[j].similarity
                            /\ res[i].similarity = res[j].similarity
                                  => res[i].pos < res[j].pos
                    /\ \A a \in 1..Len(all), i \in 1..Len(res) :
                          a \notin taken
                              => all[a].similarity <= res[i].similarity)
    /\ [][\A t \in Slots :
            (tasks[t].pc = "ss_getAll" /\ tasks'[t].pc = "done") =>
                /\ Len(tasks'[t].all) = Len(embeddings)
                /\ \A i \in 1..Len(embeddings) :
                      tasks'[t].all[i].row = embeddings[i]]_vars

(* a search with limit 2 over three rows has returned the row inserted     *)
(* last in the first place                                                 *)
C26_Witness ==
    \E t \in Slots :
        /\ tasks[t].kind = "search" /\ Returned(t, "results")
        /\ Len(tasks[t].all) = 3
        /\ tasks[t].limit = 2
        /\ Len(tasks[t].rows) = 2
        /\ tasks[t].rows[1].pos = 3

(* ---- SpecCategory: categorization next to the syncs ------------------ *)
(* A server with a key and a running watcher whose store holds one synced  *)
(* document; saves, watch events, full syncs, deletions and categorize     *)
(* requests interleave.                                                    *)

InitCategory ==
    /\ files = [p \in Paths |-> IF p = PathA THEN FileU ELSE NoFile]
    /\ documents = DocCreate({}, 1, PathA, FileU.title, FileU.body,
                             processWikiLinks(FileU.body, SelfMap))
    /\ links = LinksCreate(<<>>, 1, 1, wikiLinks[FileU.body][1].targetPath,
                           wikiLinks[FileU.body][1].linkText)
    /\ embeddings = EmbeddingsCreate(<<>>, 1, 0, chunkText(FileU.body)[1])
    /\ openai = TRUE
    /\ watcher = TRUE
    /\ opened = 1
    /\ events = {}
    /\ nextId = 2
    /\ tasks = [t \in Slots |-> IdleTask]
    /\ runs = <<>>
    /\ ops = <<>>
    /\ chunker = NoCall

CategoryStart == Len(ops) < MaxOps

NextCategory ==
    \/ \E id \in 1..(2 * MaxOps) : CategoryStart /\ CategorizeGetById(id)
    \/ \E t \in Slots : CategorizeUpdate(t)
    \/ \E p \in Paths, f \in EmbedInputs : CategoryStart /\ SaveWrite(p, f)
    \/ \E p \in Paths : CategoryStart /\ WatchEvent(p)
    \/ CategoryStart /\ SyncRepoGlob
    \/ \E id \in 1..(2 * MaxOps) : CategoryStart /\ DeleteGetById(id)
    \/ \E t \in Slots : SyncFileStep(t)
    \/ \E t \in Slots : SaveStep(t)
    \/ \E t \in Slots : SyncRepoStep(t)
    \/ \E t \in Slots : DeleteStep(t)
    \/ \E n \in 1..MaxOps : EmbedChunk(n)

SpecCategory == InitCategory /\ [][NextCategory]_vars

(* C28: no sync changes the category or the subcategory of a document that *)
(* exists: a step changes them only when it is the updateCategory of a     *)
(* categorize request for that document, which stores the answer it got,   *)
(* and a document a sync creates starts with the defaults.                 *)
C28_SyncKeepsCategory ==
    [][\A d \in documents' :
          IF \E e \in documents : e.id = d.id
          THEN LET e == CHOOSE r \in documents : r.id = d.id
               IN  \/ /\ d.category = e.category
                      /\ d.subcategory = e.subcategory
                   \/ \E t \in Slots :
                        /\ tasks[t].pc = "cat_update"
                        /\ tasks[t].doc = d.id
                        /\ tasks'[t].pc = "done"
                        /\ d.category = tasks'[t].category
                        /\ d.subcategory = tasks'[t].subcategory
          ELSE /\ d.category = "uncategorized"
               /\ d.subcategory = ""]_vars

(* a categorized document was synced again from a changed file and still   *)
(* carries the category the request stored                                 *)
C28_Witness ==
    /\ ops = <<"categorize", "save">>
    /\ \E t, u \in Slots :
          /\ tasks[t].kind = "categorize" /\ tasks[t].result = "ok"
          /\ tasks[t].category = "guide"
          /\ tasks[u].kind = "save" /\ tasks[u].pc = "done"
          /\ tasks[u].doc = tasks[t].doc
          /\ \E d \in documents :
                /\ d.id = tasks[t].doc
                /\ d.content = FileX.body
                /\ d.category = "guide"
                /\ d.subcategory = "how-to"

(* ---- SpecResync: syncs that find the files unchanged ----------------- *)
(* A server started without a key on a repository that holds any files,    *)
(* its watcher running; full syncs, saves of a file's present content,     *)
(* writes that leave the content as it is with their watch events, and     *)
(* deletions are called one after the other.                               *)

InitResync ==
    /\ files \in [Paths -> FileValues \cup {NoFile}]
    /\ documents = {}
    /\ links = <<>>
    /\ embeddings = <<>>
    /\ openai = FALSE
    /\ watcher = TRUE
    /\ opened = 1
    /\ events = {}
    /\ nextId = 1
    /\ tasks = [t \in Slots |-> IdleTask]
    /\ runs = <<>>
    /\ ops = <<>>
    /\ chunker = NoCall

NextResync ==
    \/ SeqStart /\ SyncRepoGlob
    \/ \E p \in Paths : SeqStart /\ files[p].exists /\ SaveWrite(p, files[p])
    \/ \E p \in Paths : SeqStart /\ ExternalTouch(p)
    \/ \E p \in Paths : SeqStart /\ WatchEvent(p)
    \/ \E id \in 1..(2 * MaxSeqOps) : SeqStart /\ DeleteGetById(id)
    \/ \E t \in Slots : SyncFileStep(t)
    \/ \E t \in Slots : SaveStep(t)
    \/ \E t \in Slots : SyncRepoStep(t)
    \/ \E t \in Slots : DeleteStep(t)

SpecResync == InitResync /\ [][NextResync]_vars

====
